---- MODULE Spec2Model ----
(***************************************************************************)
(* Model of wrapi's Request<T> trait (src/src/request.rs) with the Error   *)
(* type of src/src/error.rs.  One call of the pipeline is followed from    *)
(* the descriptor to its outcome: build -> dispatch (builder.send()) ->    *)
(* check_response -> json::<T>().  The injected reqwest client and the     *)
(* remote server are the environment: `server` is what the transport will  *)
(* produce for the call (a connection failure, or a status and a body).    *)
(*                                                                         *)
(* Strings are sequences of one-character strings.  A response body is a   *)
(* sequence of lexed JSON tokens; serde_json is modelled by a parser over  *)
(* those tokens.  T is instantiated as the struct { id: u64 } of the crate *)
(* documentation (CreateUserReponse).                                      *)
(***************************************************************************)
EXTENDS Integers, Sequences, FiniteSets, TLC

(* ---------------------------- bounds ---------------------------------- *)

\* longest base_url / endpoint string
MaxStrLen == 1

\* longest response body, in tokens
MaxBodyLen == 4

(* ---------------------------- Option / Result ------------------------- *)

\* Option<X> is a sequence of length 0 or 1
None == <<>>

Some(x) == <<x>>

Ok(v) == [ok |-> TRUE, val |-> v]

Err(e) == [ok |-> FALSE, err |-> e]

\* no outcome produced yet
NoResult == [pending |-> TRUE]

(* ---------------------------- error.rs -------------------------------- *)

ResponseError(status, body) == [kind |-> "ResponseError", status |-> status, body |-> body]

ClientError == [kind |-> "ClientError"]

\* error.rs declares ClientDecodeError as a unit variant: the value has no
\* payload, whatever the constructing expression is given.
ClientDecodeError(message) == [kind |-> "ClientDecodeError"]

(* ---------------------------- strings --------------------------------- *)

Chars == {"a", "/"}

RECURSIVE SeqsUpTo(_, _)
SeqsUpTo(S, n) ==
    IF n = 0 THEN {<<>>}
    ELSE LET shorter == SeqsUpTo(S, n - 1)
         IN  shorter \cup {Append(s, c) : s \in {t \in shorter : Len(t) = n - 1}, c \in S}

Strings == SeqsUpTo(Chars, MaxStrLen)

\* format!("{}/{}", base_url, endpoint)
format(base_url, endpoint) == base_url \o <<"/">> \o endpoint

(* ---------------------------- serde_json ----------------------------- *)

\* lexed JSON: braces, the member key "id":, two number literals, a string
Tokens == {"{", "}", "k", "1", "2", "s"}

Numbers == {"1", "2"}

NumVal(tok) == IF tok = "1" THEN 1 ELSE 2

Bodies == SeqsUpTo(Tokens, MaxBodyLen)

\* serde_json::Value, one record shape for every variant
JNum(n) == [t |-> "num", n |-> n, m |-> <<>>]

JStr == [t |-> "str", n |-> 0, m |-> <<>>]

JObj(members) == [t |-> "obj", n |-> 0, m |-> members]

ParseOk(v, next) == [ok |-> TRUE, val |-> v, next |-> next, msg |-> ""]

ParseErr(msg) == [ok |-> FALSE, val |-> JStr, next |-> 0, msg |-> msg]

RECURSIVE parse_value(_, _), parse_members(_, _, _)
\* serde_json's Deserializer for Value: one value starting at token i
parse_value(toks, i) ==
    IF i > Len(toks) THEN ParseErr("EOF while parsing a value")
    ELSE IF toks[i] \in Numbers THEN ParseOk(JNum(NumVal(toks[i])), i + 1)
    ELSE IF toks[i] = "s" THEN ParseOk(JStr, i + 1)
    ELSE IF toks[i] = "{" THEN parse_members(toks, i + 1, <<>>)
    ELSE ParseErr("expected value")

\* the members of an object; a repeated key replaces the earlier entry
parse_members(toks, i, acc) ==
    IF i > Len(toks) THEN ParseErr("EOF while parsing an object")
    ELSE IF toks[i] = "}" THEN ParseOk(JObj(acc), i + 1)
    ELSE IF toks[i] = "k" THEN
        LET v == parse_value(toks, i + 1)
        IN  IF v.ok THEN parse_members(toks, v.next, <<[k |-> "id", v |-> v.val]>>)
            ELSE v
    ELSE ParseErr("key must be a string")

\* response.json::<Value>(): the whole body must be one JSON value
json_Value(body) ==
    LET v == parse_value(body, 1)
    IN  IF ~v.ok THEN Err(v.msg)
        ELSE IF v.next # Len(body) + 1 THEN Err("trailing characters")
        ELSE Ok(v.val)

RECURSIVE visit_map(_, _, _)
\* derived Deserialize of T = struct { id: u64 }: the members from token i,
\* id is the field read so far
visit_map(toks, i, id) ==
    IF i > Len(toks) THEN Err("EOF while parsing an object")
    ELSE IF toks[i] = "}" THEN
        IF id = None THEN Err("missing field id")
        ELSE IF i # Len(toks) THEN Err("trailing characters")
        ELSE Ok([id |-> id[1]])
    ELSE IF toks[i] = "k" THEN
        IF id # None THEN Err("duplicate field id")
        ELSE IF i + 1 > Len(toks) THEN Err("EOF while parsing a value")
        ELSE IF toks[i + 1] \in Numbers THEN visit_map(toks, i + 2, Some(NumVal(toks[i + 1])))
        ELSE IF toks[i + 1] \in {"s", "{"} THEN Err("invalid type")
        ELSE Err("expected value")
    ELSE Err("key must be a string")

\* response.json::<T>()
json_T(body) ==
    IF Len(body) = 0 THEN Err("EOF while parsing a value")
    ELSE IF body[1] = "{" THEN visit_map(body, 2, None)
    ELSE IF body[1] \in Numbers \cup {"s"} THEN Err("invalid type")
    ELSE Err("expected value")

\* Result::ok()
ok(r) == IF r.ok THEN Some(r.val) ELSE None

(* ---------------------------- descriptor ----------------------------- *)

Methods == {"GET", "POST"}

Names == {"John", "Jane"}

\* one representative value for each optional parameter
OptionOf(x) == {None, Some(x)}

\* an implementor of Request<T>: `name` is its serialized field, the other
\* fields are what its trait methods return; body_impl tells whether it keeps
\* the default body() or overrides it to return None
Descriptors ==
    [name : Names, endpoint : Strings, method : Methods,
     headers : OptionOf(<<"h">>), query : OptionOf(<<"q">>), form : OptionOf(<<"f">>),
     bearer : OptionOf(<<"t">>), basic_auth : OptionOf(<<"u", "p">>),
     body_impl : {"default", "none"}]

endpoint(self) == self.endpoint

method(self) == self.method

headers(self) == self.headers

query(self) == self.query

form(self) == self.form

bearer(self) == self.bearer

basic_auth(self) == self.basic_auth

body(self) == IF self.body_impl = "default" THEN Some(self) ELSE None

\* serde_json::to_vec of the descriptor: only its serialized field
to_json(self) == <<"{", "name", self.name, "}">>

(* ---------------------------- reqwest::RequestBuilder ----------------- *)

NoBody == [kind |-> "none", payload |-> <<>>]

\* client.request(method, url)
client_request(m, url) ==
    [method |-> m, url |-> url, headers |-> None, query |-> None, bearer |-> None,
     basic_auth |-> None, body |-> NoBody, applied |-> <<>>]

NoRequest == client_request("", <<>>)

with_headers(request, h) ==
    [request EXCEPT !.headers = Some(h), !.applied = Append(@, "headers")]

with_query(request, q) ==
    [request EXCEPT !.query = Some(q), !.applied = Append(@, "query")]

\* form() and json() both set the body: the later call replaces the earlier
with_form(request, f) ==
    [request EXCEPT !.body = [kind |-> "form", payload |-> f], !.applied = Append(@, "form")]

with_bearer_auth(request, t) ==
    [request EXCEPT !.bearer = Some(t), !.applied = Append(@, "bearer")]

with_basic_auth(request, up) ==
    [request EXCEPT !.basic_auth = Some(up), !.applied = Append(@, "basic_auth")]

with_json(request, b) ==
    [request EXCEPT !.body = [kind |-> "json", payload |-> to_json(b)], !.applied = Append(@, "json")]

\* build with basic auth applied before the bearer token
build_reordered(self, base_url) ==
    LET r0 == client_request(method(self), format(base_url, endpoint(self)))
        r1 == IF headers(self) # None THEN with_headers(r0, headers(self)[1]) ELSE r0
        r2 == IF query(self) # None THEN with_query(r1, query(self)[1]) ELSE r1
        r3 == IF form(self) # None THEN with_form(r2, form(self)[1]) ELSE r2
        r4 == IF basic_auth(self) # None THEN with_basic_auth(r3, basic_auth(self)[1]) ELSE r3
        r5 == IF bearer(self) # None THEN with_bearer_auth(r4, bearer(self)[1]) ELSE r4
        r6 == IF body(self) # None THEN with_json(r5, body(self)[1]) ELSE r5
    IN  r6

\* build that attaches the JSON body only to requests other than GET
build_no_body_for_get(self, base_url) ==
    LET r0 == client_request(method(self), format(base_url, endpoint(self)))
        r1 == IF headers(self) # None THEN with_headers(r0, headers(self)[1]) ELSE r0
        r2 == IF query(self) # None THEN with_query(r1, query(self)[1]) ELSE r1
        r3 == IF form(self) # None THEN with_form(r2, form(self)[1]) ELSE r2
        r4 == IF bearer(self) # None THEN with_bearer_auth(r3, bearer(self)[1]) ELSE r3
        r5 == IF basic_auth(self) # None THEN with_basic_auth(r4, basic_auth(self)[1]) ELSE r4
        r6 == IF body(self) # None /\ method(self) # "GET" THEN with_json(r5, body(self)[1]) ELSE r5
    IN  r6

\* Request::build
build(self, base_url) ==
    LET r0 == client_request(method(self), format(base_url, endpoint(self)))
        r1 == IF headers(self) # None THEN with_headers(r0, headers(self)[1]) ELSE r0
        r2 == IF query(self) # None THEN with_query(r1, query(self)[1]) ELSE r1
        r3 == IF form(self) # None THEN with_form(r2, form(self)[1]) ELSE r2
        r4 == IF bearer(self) # None THEN with_bearer_auth(r3, bearer(self)[1]) ELSE r3
        r5 == IF basic_auth(self) # None THEN with_basic_auth(r4, basic_auth(self)[1]) ELSE r4
        r6 == IF body(self) # None THEN with_json(r5, body(self)[1]) ELSE r5
    IN  r6

(* ---------------------------- transport ------------------------------- *)

Statuses == {101, 200, 201, 304, 422, 500}

\* what the injected client and the remote end produce for the call
Servers ==
    {[fail |-> TRUE, status |-> 0, body |-> <<>>]}
        \cup [fail : {FALSE}, status : Statuses, body : Bodies]

\* reqwest::Response: reading the body consumes it
Response(status, b) == [status |-> status, body |-> b, reads |-> 0]

NoResponse == Response(0, <<>>)

read(response) == [response EXCEPT !.body = <<>>, !.reads = @ + 1]

\* builder.send().await
builder_send(builder, srv) ==
    IF srv.fail THEN Err("connect") ELSE Ok(Response(srv.status, srv.body))

\* http::StatusCode
is_success(status) == 200 <= status /\ status < 300

is_client_error(status) == 400 <= status /\ status < 500

is_server_error(status) == 500 <= status /\ status < 600

\* reqwest::Response::error_for_status_ref
error_for_status_ref(response) ==
    IF is_client_error(response.status) \/ is_server_error(response.status)
    THEN Err("status") ELSE Ok(response)

(* ---------------------------- response handling ----------------------- *)

\* check_response with `.await?` on the error body instead of `.ok()`: a body
\* that is not JSON replaces the ResponseError
check_response_masked(response) ==
    IF ~error_for_status_ref(response).ok
    THEN [result |-> IF json_Value(response.body).ok
                     THEN Err(ResponseError(response.status, Some(json_Value(response.body).val)))
                     ELSE Err(ClientDecodeError(json_Value(response.body).err)),
          response |-> read(response)]
    ELSE [result |-> Ok(response), response |-> response]

\* check_response reading the body of every response, so that the decoder
\* is handed a consumed one
check_response_consuming(response) ==
    IF ~error_for_status_ref(response).ok
    THEN [result |-> Err(ResponseError(response.status, ok(json_Value(response.body)))),
          response |-> read(response)]
    ELSE [result |-> Ok(read(response)), response |-> read(response)]

\* Request::check_response; the response field is the response as the call
\* leaves it
check_response(response) ==
    IF ~error_for_status_ref(response).ok
    THEN [result |-> Err(ResponseError(response.status, ok(json_Value(response.body)))),
          response |-> read(response)]
    ELSE [result |-> Ok(response), response |-> response]

\* json_map_err reading the body a second time when decoding failed
json_map_err_rereads(response) ==
    LET j == json_T(response.body)
    IN  [result |-> IF j.ok THEN Ok(j.val) ELSE Err(ClientDecodeError(j.err)),
         response |-> IF j.ok THEN read(response) ELSE read(read(response))]

\* from_response after check_response: .json::<T>().await.map_err(..)
json_map_err(response) ==
    LET j == json_T(response.body)
    IN  [result |-> IF j.ok THEN Ok(j.val) ELSE Err(ClientDecodeError(j.err)),
         response |-> read(response)]

\* json_ok with the decode failure propagated instead of discarded
json_ok_strict(response) ==
    LET j == json_T(response.body)
    IN  [result |-> IF j.ok THEN Ok(Some(j.val)) ELSE Err(ClientDecodeError(j.err)),
         response |-> read(response)]

\* from_response_opt after check_response: .json::<T>().await.ok()
json_ok(response) ==
    [result |-> Ok(ok(json_T(response.body))), response |-> read(response)]

\* Request::from_response
from_response(response) ==
    LET checked == check_response(response)
    IN  IF ~checked.result.ok THEN checked ELSE json_map_err(checked.result.val)

\* Request::from_response_opt
from_response_opt(response) ==
    LET checked == check_response(response)
    IN  IF ~checked.result.ok THEN checked ELSE json_ok(checked.result.val)

\* Request::exec
exec(builder, srv) ==
    LET sent == builder_send(builder, srv)
    IN  IF ~sent.ok THEN [result |-> Err(ClientError), response |-> NoResponse]
        ELSE from_response(sent.val)

\* Request::exec_opt
exec_opt(builder, srv) ==
    LET sent == builder_send(builder, srv)
    IN  IF ~sent.ok THEN [result |-> Err(ClientError), response |-> NoResponse]
        ELSE from_response_opt(sent.val)

\* Request::send
send(self, base_url, srv) == exec(build(self, base_url), srv)

(* ---------------------------- one call --------------------------------- *)

VARIABLES
    desc,        \* the descriptor (self)
    base_url,    \* the base URL given to build / send
    server,      \* what the transport produces for this call
    entry,       \* the trait method the caller invoked
    pc,          \* position of the call
    request,     \* the RequestBuilder
    response,    \* the Response held by the call
    result,      \* the outcome returned to the caller
    steps,       \* the steps executed so far, in order
    dispatches   \* how many times the request was sent

vars == <<desc, base_url, server, entry, pc, request, response, result, steps, dispatches>>

\* send builds the request itself; exec and exec_opt are given the builder the
\* caller obtained from build; the other three are given a Response
BuilderEntries == {"send", "exec", "exec_opt"}

ResponseEntries == {"from_response", "from_response_opt", "check_response"}

Entries == BuilderEntries \cup ResponseEntries

\* the descriptor of the crate documentation: POST user, default body
ExampleDescriptor ==
    [name |-> "John", endpoint |-> <<"a">>, method |-> "POST", headers |-> None, query |-> None,
     form |-> None, bearer |-> None, basic_auth |-> None, body_impl |-> "default"]

\* the three scenario responses and a connection failure
ExampleServers ==
    {[fail |-> TRUE, status |-> 0, body |-> <<>>],
     [fail |-> FALSE, status |-> 201, body |-> <<"{", "k", "2", "}">>],
     [fail |-> FALSE, status |-> 422, body |-> <<"{", "}">>],
     [fail |-> FALSE, status |-> 200, body |-> <<"{", "}">>]}

InitCall ==
    /\ entry \in Entries
    /\ IF entry \in BuilderEntries
       THEN pc = "start" /\ response = NoResponse
       ELSE /\ ~server.fail
            /\ pc = "completed"
            /\ response = Response(server.status, server.body)
    /\ request = NoRequest
    /\ result = NoResult
    /\ steps = <<>>
    /\ dispatches = 0

\* every transport outcome, for the documented descriptor
Init ==
    /\ desc = ExampleDescriptor
    /\ base_url = <<"a">>
    /\ server \in Servers
    /\ InitCall

\* every descriptor, for the scenario transport outcomes
InitBuild ==
    /\ desc \in Descriptors
    /\ base_url \in Strings
    /\ server \in ExampleServers
    /\ InitCall

\* build (called by send, or by the caller before exec / exec_opt)
Build ==
    /\ pc = "start"
    /\ request' = build(desc, base_url)
    /\ steps' = Append(steps, "build")
    /\ pc' = "built"
    /\ UNCHANGED <<desc, base_url, server, entry, response, result, dispatches>>

\* Dispatch that goes on to classification after a transport failure
Dispatch_fallthrough ==
    /\ pc = "built"
    /\ LET sent == builder_send(request, server)
       IN  /\ dispatches' = dispatches + 1
           /\ steps' = Append(steps, "dispatch")
           /\ response' = IF sent.ok THEN sent.val ELSE NoResponse
           /\ pc' = "completed"
           /\ result' = result
    /\ UNCHANGED <<desc, base_url, server, entry, request>>

\* Dispatch that sends the request a second time after a transport failure
Dispatch_retry ==
    /\ pc = "built"
    /\ LET sent == builder_send(request, server)
       IN  /\ dispatches' = dispatches + 1
           /\ steps' = Append(steps, "dispatch")
           /\ IF sent.ok
              THEN response' = sent.val /\ pc' = "completed" /\ result' = result
              ELSE IF dispatches = 0
                   THEN response' = response /\ pc' = "built" /\ result' = result
                   ELSE response' = response /\ pc' = "done" /\ result' = Err(ClientError)
    /\ UNCHANGED <<desc, base_url, server, entry, request>>

\* exec / exec_opt: builder.send().await.map_err(|_| Error::ClientError)?
Dispatch ==
    /\ pc = "built"
    /\ LET sent == builder_send(request, server)
       IN  /\ dispatches' = dispatches + 1
           /\ steps' = Append(steps, "dispatch")
           /\ IF sent.ok
              THEN response' = sent.val /\ pc' = "completed" /\ result' = result
              ELSE response' = response /\ pc' = "done" /\ result' = Err(ClientError)
    /\ UNCHANGED <<desc, base_url, server, entry, request>>

\* CheckResponse whose error is discarded by the Option-returning entry points
CheckResponse_swallow ==
    /\ pc = "completed"
    /\ LET checked == check_response(response)
       IN  /\ response' = checked.response
           /\ steps' = Append(steps, "classify")
           /\ IF ~checked.result.ok \/ entry = "check_response"
              THEN /\ result' = IF entry \in {"exec_opt", "from_response_opt"}
                                THEN Ok(None) ELSE checked.result
                   /\ pc' = "done"
              ELSE result' = result /\ pc' = "classified"
    /\ UNCHANGED <<desc, base_url, server, entry, request, dispatches>>

\* check_response(response).await?
CheckResponse ==
    /\ pc = "completed"
    /\ LET checked == check_response(response)
       IN  /\ response' = checked.response
           /\ steps' = Append(steps, "classify")
           /\ IF ~checked.result.ok \/ entry = "check_response"
              THEN result' = checked.result /\ pc' = "done"
              ELSE result' = result /\ pc' = "classified"
    /\ UNCHANGED <<desc, base_url, server, entry, request, dispatches>>

\* from_response: .json::<T>().await.map_err(..)
FromResponse ==
    /\ pc = "classified"
    /\ entry \in {"send", "exec", "from_response"}
    /\ LET decoded == json_map_err(response)
       IN  /\ response' = decoded.response
           /\ result' = decoded.result
    /\ steps' = Append(steps, "decode")
    /\ pc' = "done"
    /\ UNCHANGED <<desc, base_url, server, entry, request, dispatches>>

\* from_response_opt: .json::<T>().await.ok()
FromResponseOpt ==
    /\ pc = "classified"
    /\ entry \in {"exec_opt", "from_response_opt"}
    /\ LET decoded == json_ok(response)
       IN  /\ response' = decoded.response
           /\ result' = decoded.result
    /\ steps' = Append(steps, "decode")
    /\ pc' = "done"
    /\ UNCHANGED <<desc, base_url, server, entry, request, dispatches>>

Next == Build \/ Dispatch \/ CheckResponse \/ FromResponse \/ FromResponseOpt

Spec == Init /\ [][Next]_vars

SpecBuild == InitBuild /\ [][Next]_vars

(* ---------------------------- properties ------------------------------ *)

\* the call has returned to its caller
Done == pc = "done"

\* the transport produced a response (the call was given one, or will get one)
Completed == ~server.fail

\* the status is a client or server error, 4xx or 5xx
ErrorStatus(status) == (400 <= status) /\ (status <= 599)

\* the entry points that decode into T, and those that decode into Option<T>
PlainEntries == {"send", "exec", "from_response"}

OptEntries == {"exec_opt", "from_response_opt"}

FieldOrder == <<"headers", "query", "form", "bearer", "basic_auth", "json">>

StepOrder == <<"build", "dispatch", "classify", "decode">>

IsPrefix(s, t) == Len(s) <= Len(t) /\ s = SubSeq(t, 1, Len(s))

Count(s, x) == Cardinality({i \in 1..Len(s) : s[i] = x})

\* C1 as stated: every completed response whose status is outside 2xx (1xx
\* and 3xx included) ends in Err(ResponseError(status, body)), body being
\* Some(json) iff the response body parses as JSON.
C1_AnyNon2xxIsResponseError ==
    (Done /\ Completed /\ ~is_success(server.status)) =>
        /\ ~result.ok
        /\ result.err.kind = "ResponseError"
        /\ result.err.status = server.status
        /\ (result.err.body # None) <=> json_Value(server.body).ok
        /\ json_Value(server.body).ok => result.err.body = Some(json_Value(server.body).val)

\* C1 amended: every completed response whose status is a client or server
\* error (4xx or 5xx) ends, on every entry point, in
\* Err(ResponseError(status, body)) with the response's status, body being
\* Some(json) iff the response body parses as JSON and None otherwise.
C1_ErrorStatusIsResponseError ==
    (Done /\ Completed /\ ErrorStatus(server.status)) =>
        /\ ~result.ok
        /\ result.err.kind = "ResponseError"
        /\ result.err.status = server.status
        /\ (result.err.body # None) <=> json_Value(server.body).ok
        /\ json_Value(server.body).ok => result.err.body = Some(json_Value(server.body).val)

C1_Witness ==
    /\ Done
    /\ entry = "exec_opt"
    /\ server.status = 500
    /\ ~json_Value(server.body).ok
    /\ result = Err(ResponseError(500, None))

\* C2: a response that is classified as success (every 2xx status is) and
\* whose body does not decode as T gives Err(ClientDecodeError) from
\* from_response and Ok(None) from from_response_opt, never ResponseError or
\* ClientError.
C2_UndecodableBody ==
    (Done /\ Completed /\ ~ErrorStatus(server.status) /\ ~json_T(server.body).ok) =>
        /\ entry \in PlainEntries => (~result.ok /\ result.err.kind = "ClientDecodeError")
        /\ entry \in OptEntries => result = Ok(None)

C2_Witness ==
    /\ Done
    /\ entry = "from_response_opt"
    /\ server.status = 200
    /\ server.body = <<"{", "}">>
    /\ result = Ok(None)

\* C3: a response that is classified as success (every 2xx status is) and
\* whose body decodes as T gives Ok(v) from from_response and Ok(Some(v)) from
\* from_response_opt, v being the raw body decoded as T.
C3_DecodableBody ==
    (Done /\ Completed /\ ~ErrorStatus(server.status) /\ json_T(server.body).ok) =>
        /\ entry \in PlainEntries => result = Ok(json_T(server.body).val)
        /\ entry \in OptEntries => result = Ok(Some(json_T(server.body).val))

C3_Witness ==
    /\ Done
    /\ entry = "send"
    /\ server.status = 201
    /\ result = Ok([id |-> 2])

\* C4: when the transport fails, send, exec and exec_opt return
\* Err(ClientError) for every descriptor, and neither classification nor
\* decoding runs and no body is read.
C4_TransportFailure ==
    (Done /\ server.fail) =>
        /\ result = Err(ClientError)
        /\ steps = <<"build", "dispatch">>
        /\ response = NoResponse

C4_Witness ==
    /\ Done
    /\ server.fail
    /\ entry = "exec_opt"
    /\ desc.bearer # None
    /\ desc.method = "GET"
    /\ result = Err(ClientError)

\* C5: the ClientDecodeError returned for an undecodable success body has a
\* message component, equal to the decoder's message for that body.
C5_DecodeErrorCarriesMessage ==
    (Done /\ Completed /\ is_success(server.status) /\ ~json_T(server.body).ok
          /\ entry \in PlainEntries) =>
        /\ ~result.ok
        /\ result.err.kind = "ClientDecodeError"
        /\ "message" \in DOMAIN result.err
        /\ result.err.message = json_T(server.body).err

\* the applied() test of C6: the descriptor supplies this field
Present(self, field) ==
    CASE field = "headers" -> headers(self) # None
      [] field = "query" -> query(self) # None
      [] field = "form" -> form(self) # None
      [] field = "bearer" -> bearer(self) # None
      [] field = "basic_auth" -> basic_auth(self) # None
      [] field = "json" -> body(self) # None

\* C6: the built request has the descriptor's method and the URL
\* base_url "/" endpoint, the applied steps are exactly the present fields in
\* the order headers, query, form, bearer, basic auth, JSON body, and nothing
\* has been dispatched.
C6_BuildOrder ==
    (pc = "built") =>
        /\ request.method = desc.method
        /\ request.url = base_url \o <<"/">> \o desc.endpoint
        /\ LET IsPresent(field) == Present(desc, field)
           IN  request.applied = SelectSeq(FieldOrder, IsPresent)
        /\ request.headers = desc.headers
        /\ request.query = desc.query
        /\ request.bearer = desc.bearer
        /\ request.basic_auth = desc.basic_auth
        /\ dispatches = 0
        /\ response = NoResponse
        /\ result = NoResult

C6_Witness ==
    /\ pc = "built"
    /\ request.applied = FieldOrder
    /\ request.url = <<"a", "/", "/">>

\* C7: a descriptor whose body() is None builds a request without JSON
\* payload; one that keeps the default body() builds a request whose JSON
\* payload is the serialized descriptor, whatever the method.
C7_BodyPayload ==
    (pc = "built") =>
        /\ desc.body_impl = "none" => request.body.kind # "json"
        /\ desc.body_impl = "default" =>
               request.body = [kind |-> "json", payload |-> <<"{", "name", desc.name, "}">>]
        /\ request.body.kind = "json" => request.body.payload[3] = desc.name

C7_Witness ==
    /\ pc = "built"
    /\ desc.method = "GET"
    /\ desc.form # None
    /\ desc.name = "Jane"
    /\ request.body = [kind |-> "json", payload |-> <<"{", "name", "Jane", "}">>]

\* C8: a call through send (or build then exec / exec_opt) runs build,
\* dispatch, classify, decode in that order, each at most once; it classifies
\* only a completed dispatch, decodes only what classification passed, and
\* ends in exactly one outcome.
C8_StepOrder ==
    entry \in BuilderEntries =>
        /\ IsPrefix(steps, StepOrder)
        /\ dispatches = Count(steps, "dispatch")
        /\ dispatches <= 1
        /\ Count(steps, "classify") = 1 => Completed
        /\ Count(steps, "decode") = 1 => check_response(Response(server.status, server.body)).result.ok
        /\ Done <=> result # NoResult
        /\ Done =>
            \/ result.ok /\ steps = StepOrder
            \/ ~result.ok /\ result.err.kind = "ClientError" /\ steps = <<"build", "dispatch">>
            \/ ~result.ok /\ result.err.kind = "ResponseError" /\ steps = <<"build", "dispatch", "classify">>
            \/ ~result.ok /\ result.err.kind = "ClientDecodeError" /\ steps = StepOrder

C8_Witness ==
    /\ Done
    /\ entry = "send"
    /\ steps = StepOrder
    /\ dispatches = 1
    /\ ~result.ok

====
